---- MODULE Spec2Model ----
(***************************************************************************)
(* Webmon (Assignment-2/webmon.py): the supervision loop monitor_ubs, the  *)
(* helpers it calls, the child process it supervises and the interrupt     *)
(* handler of the main script.                                             *)
(*                                                                         *)
(* Python strings that the code builds or inspects ('http' + str(code),    *)
(* startswith('http')) are sequences of one-character strings, so that    *)
(* the key derivation and the match predicate are computed, not assumed.   *)
(***************************************************************************)
EXTENDS Integers, Sequences, FiniteSets, TLC

VARIABLES
    config,        \* the dict load_config returned (webmonconfig)
    procs,         \* the child processes of the host: handle -> state
    ubs_process,   \* the handle the main script holds (line 159)
    process,       \* the handle monitor_ubs holds (its parameter, rebound on restart)
    pc,            \* the position of the main thread
    status_code,   \* monitor_ubs locals, lines 111-118
    outcome_key,
    retrytimes,
    action,
    attempts,
    max_attempts,
    writable,      \* whether open(LOGFILE, 'a') / write succeeds at this moment
    launchable,    \* whether subprocess.Popen can start a child at this moment
    fatal,         \* the uncaught exception that ended the script, if any
    log,           \* history: the lines appended to LOGFILE since the cycle began
    probed,        \* history: the results of the requests made since the cycle began
    hist           \* history: the side effects since the cycle began, in order

vars == <<config, procs, ubs_process, process, pc, status_code, outcome_key,
          retrytimes, action, attempts, max_attempts, writable, launchable, fatal,
          log, probed, hist>>

locals == <<status_code, outcome_key, retrytimes, action, attempts, max_attempts>>

-----------------------------------------------------------------------------
(* Bounds of the model *)

\* the largest 'retrytimes' a generated policy entry carries
MaxRetryTimes == 2

\* the number of process handles the host can hold at once
NumPids == 3

-----------------------------------------------------------------------------
(* Python strings and dicts *)

HTTP == <<"h", "t", "t", "p">>
TIMEOUT == <<"t", "i", "m", "e", "o", "u", "t">>
ERROR == <<"e", "r", "r", "o", "r">>
WAITTIME == <<"w", "a", "i", "t", "t", "i", "m", "e">>

Digits == <<"0", "1", "2", "3", "4", "5", "6", "7", "8", "9">>

\* str(n) of a non-negative int
RECURSIVE str(_)
str(n) == IF n < 10 THEN <<Digits[n + 1]>>
          ELSE str(n \div 10) \o <<Digits[(n % 10) + 1]>>

\* s.startswith(prefix)
startswith(s, prefix) ==
    /\ Len(s) >= Len(prefix)
    /\ SubSeq(s, 1, Len(prefix)) = prefix

\* the empty dict {}
EmptyDict == [k \in {} |-> 0]

\* d.get(key, default)
get(d, key, default) == IF key \in DOMAIN d THEN d[key] ELSE default

-----------------------------------------------------------------------------
(* What perform_request returns: an int status code, 'timeout' or 'error' *)

IntResult(n) == [isInt |-> TRUE, code |-> n, text |-> <<>>]
StrResult(s) == [isInt |-> FALSE, code |-> 0, text |-> s]

\* the value of a local before its first assignment
None == StrResult(<<>>)

\* the status codes of the health endpoint (Assignment-1/server.py) and the two
\* descriptors of perform_request
perform_request ==
    {IntResult(200), IntResult(403), IntResult(500), StrResult(TIMEOUT), StrResult(ERROR)}

\* line 112
OutcomeKey(sc) == IF sc.isInt THEN HTTP \o str(sc.code) ELSE sc.text

\* status_code_matches, lines 76-90
status_code_matches(sc, key) ==
    IF key = TIMEOUT /\ (~sc.isInt /\ sc.text = TIMEOUT)
    THEN TRUE
    ELSE IF startswith(key, HTTP) /\ sc.isInt
         THEN key = HTTP \o str(sc.code)
         ELSE FALSE

\* line 118 without the first attempt
MaxAttemptsNoFirst(rt) == rt

\* line 118
MaxAttempts(rt) == 1 + rt

\* line 120 with <= for <
RetryConditionInclusive(a, m, sc, key) == a <= m /\ status_code_matches(sc, key)

\* line 120 without the match predicate
RetryConditionCountOnly(a, m, sc, key) == a < m

\* line 120: the condition of the retry loop
RetryCondition(a, m, sc, key) == a < m /\ status_code_matches(sc, key)

\* line 130 without the exception for the healthy key
StillFailingAlsoHealthy(sc, key) == status_code_matches(sc, key)

\* line 130: the outcome persists and is not the healthy one
StillFailing(sc, key) == status_code_matches(sc, key) /\ key # HTTP \o str(200)

\* line 134 without the else of line 138: the success line follows the failure line
AfterFailedFallsThrough(act) == IF act = "restart" THEN "terminate" ELSE "log_success"

\* line 134 without the test of the action
AfterFailedAlwaysRestart(act) == "terminate"

\* line 134: where the loop goes after the failure line
AfterFailed(act) == IF act = "restart" THEN "terminate" ELSE "check"

-----------------------------------------------------------------------------
(* The configuration: 'waittime' and a policy table over outcome keys *)

PolicyKeys == {TIMEOUT, ERROR, HTTP \o str(403), HTTP \o str(200)}

RetryFields == {EmptyDict} \cup {[retrytimes |-> n] : n \in 0..MaxRetryTimes}
ActionFields == {EmptyDict} \cup {[action |-> a] : a \in {"restart", "nothing"}}
Entries == {r @@ a : r \in RetryFields, a \in ActionFields}

BaseConfig == (WAITTIME :> 1000)

Configs ==
    {BaseConfig}
    \cup {BaseConfig @@ (k :> e) : k \in PolicyKeys, e \in Entries}
    \cup {BaseConfig @@ (HTTP \o str(403) :> [retrytimes |-> MaxRetryTimes, action |-> "restart"])
                     @@ (k :> [retrytimes |-> 1, action |-> a]) :
              k \in {TIMEOUT, HTTP \o str(200)}, a \in {"restart", "nothing"}}

-----------------------------------------------------------------------------
(* The child processes *)

Pids == 1..NumPids

\* is_ubs_running, lines 36-44: poll() is None until the child has exited
is_ubs_running(p) == procs[p] \in {"running", "terminating"}

\* handles no variable refers to and whose process is gone can be handed out again
FreePids == {p \in Pids : p \notin {process, ubs_process} /\ procs[p] \in {"none", "exited"}}

\* start_ubs, lines 26-33: the handle subprocess.Popen returns
start_ubs == CHOOSE p \in FreePids : \A q \in FreePids : p <= q

\* Popen.terminate: SIGTERM to a child that has not exited, nothing otherwise;
\* it does not wait for the child
terminate(p) == IF procs[p] = "running" THEN [procs EXCEPT ![p] = "terminating"] ELSE procs

-----------------------------------------------------------------------------
(* The lines of the log *)

Line(type, a, m, sc, key) ==
    [type |-> type, attempts |-> a, max_attempts |-> m, status |-> sc, key |-> key]

NotRunningLine == Line("restarted_not_running", 0, 0, None, <<>>)          \* line 107
AttemptLine(a, m, sc) == Line("attempt", a, m, sc, <<>>)                   \* line 121
FailedLine(a, m, sc) == Line("failed", a, m, sc, <<>>)                     \* line 132
RestartLine(key) == Line("restarted_due_to", 0, 0, None, key)              \* line 137
SuccessLine(sc, a) == Line("success", a, 0, sc, <<>>)                      \* line 140

\* log_to_file, lines 47-55, followed by the jump to `next`: the line is appended,
\* or open/write raises OSError, which nothing in monitor_ubs or the main script
\* catches
log_to_file(message, next) ==
    IF writable
    THEN /\ log' = Append(log, message)
         /\ hist' = Append(hist, "log")
         /\ pc' = next
         /\ fatal' = fatal
    ELSE /\ log' = log
         /\ hist' = hist
         /\ pc' = "crashed"
         /\ fatal' = "log"

-----------------------------------------------------------------------------
Init ==
    /\ config \in Configs
    /\ procs = [p \in Pids |-> IF p = 1 THEN "running" ELSE "none"]
    /\ ubs_process = 1
    /\ process = 1
    /\ pc = "enter"
    /\ status_code = None
    /\ outcome_key = <<>>
    /\ retrytimes = 0
    /\ action = "nothing"
    /\ attempts = 0
    /\ max_attempts = 0
    /\ writable = TRUE
    /\ launchable = TRUE
    /\ fatal = "none"
    /\ log = <<>>
    /\ probed = <<>>
    /\ hist = <<>>

-----------------------------------------------------------------------------
(* monitor_ubs, lines 93-140 *)

\* line 101 as config.get('waittime', 1000)
EnterMonitorDefaultWaittime ==
    /\ pc = "enter"
    /\ pc' = "check"
    /\ UNCHANGED <<config, procs, ubs_process, process, locals, writable, launchable, fatal,
                   log, probed, hist>>

\* line 101
EnterMonitor ==
    /\ pc = "enter"
    /\ IF WAITTIME \in DOMAIN config
       THEN pc' = "check" /\ fatal' = fatal
       ELSE pc' = "crashed" /\ fatal' = "config"
    /\ UNCHANGED <<config, procs, ubs_process, process, locals, writable, launchable, log, probed, hist>>

\* line 105: a cycle begins
CheckLiveness ==
    /\ pc = "check"
    /\ pc' = IF ~is_ubs_running(process) THEN "start_dead" ELSE "first_request"
    /\ log' = <<>>
    /\ probed' = <<>>
    /\ hist' = <<>>
    /\ UNCHANGED <<config, procs, ubs_process, process, locals, writable, launchable, fatal>>

\* process = start_ubs() (lines 106, 136), followed by the jump to `next`: the
\* loop's handle is rebound to the new child, or Popen raises OSError, which
\* nothing in monitor_ubs or the main script catches
restart_ubs(next) ==
    IF launchable
    THEN /\ FreePids # {}
         /\ process' = start_ubs
         /\ procs' = [procs EXCEPT ![start_ubs] = "running"]
         /\ hist' = Append(hist, "start")
         /\ pc' = next
         /\ fatal' = fatal
    ELSE /\ process' = process
         /\ procs' = procs
         /\ hist' = hist
         /\ pc' = "crashed"
         /\ fatal' = "launch"

\* line 106 with the launch failure swallowed
StartDeadSwallowsFailure ==
    /\ pc = "start_dead"
    /\ IF launchable
       THEN restart_ubs("log_dead")
       ELSE /\ pc' = "log_dead"
            /\ UNCHANGED <<process, procs, hist, fatal>>
    /\ UNCHANGED <<config, ubs_process, locals, writable, launchable, log, probed>>

\* line 106
StartDead ==
    /\ pc = "start_dead"
    /\ restart_ubs("log_dead")
    /\ UNCHANGED <<config, ubs_process, locals, writable, launchable, log, probed>>

\* line 107 without the `continue` of line 108
LogDeadNoContinue ==
    /\ pc = "log_dead"
    /\ log_to_file(NotRunningLine, "first_request")
    /\ UNCHANGED <<config, procs, ubs_process, process, locals, writable, launchable, probed>>

\* lines 107-108
LogDead ==
    /\ pc = "log_dead"
    /\ log_to_file(NotRunningLine, "check")
    /\ UNCHANGED <<config, procs, ubs_process, process, locals, writable, launchable, probed>>

\* line 111: the request leaves
FirstRequest ==
    /\ pc = "first_request"
    /\ pc' = "first_wait"
    /\ hist' = Append(hist, "probe")
    /\ UNCHANGED <<config, procs, ubs_process, process, locals, writable, launchable, fatal, log, probed>>

\* lines 111-118 with one retry as the default of 'retrytimes' and restart as the
\* default of 'action'
FirstResponseOtherDefaults ==
    /\ pc = "first_wait"
    /\ \E r \in perform_request :
        LET key == OutcomeKey(r)
            retry_config == get(config, key, EmptyDict)
            rt == get(retry_config, "retrytimes", 1)
        IN /\ status_code' = r
           /\ outcome_key' = key
           /\ retrytimes' = rt
           /\ action' = get(retry_config, "action", "restart")
           /\ attempts' = 1
           /\ max_attempts' = 1 + rt
           /\ probed' = Append(probed, r)
    /\ pc' = "retry_test"
    /\ UNCHANGED <<config, procs, ubs_process, process, writable, launchable, fatal, log, hist>>

\* lines 111-118: perform_request returns
FirstResponse ==
    /\ pc = "first_wait"
    /\ \E r \in perform_request :
        LET key == OutcomeKey(r)
            retry_config == get(config, key, EmptyDict)
            rt == get(retry_config, "retrytimes", 0)
        IN /\ status_code' = r
           /\ outcome_key' = key
           /\ retrytimes' = rt
           /\ action' = get(retry_config, "action", "nothing")
           /\ attempts' = 1
           /\ max_attempts' = MaxAttempts(rt)
           /\ probed' = Append(probed, r)
    /\ pc' = "retry_test"
    /\ UNCHANGED <<config, procs, ubs_process, process, writable, launchable, fatal, log, hist>>

\* line 120
RetryTest ==
    /\ pc = "retry_test"
    /\ pc' = IF RetryCondition(attempts, max_attempts, status_code, outcome_key)
             THEN "log_attempt"
             ELSE "decide"
    /\ UNCHANGED <<config, procs, ubs_process, process, locals, writable, launchable, fatal, log, probed, hist>>

\* lines 121-124 without the increment of line 122
LogAttemptNoIncrement ==
    /\ pc = "log_attempt"
    /\ log_to_file(AttemptLine(attempts, max_attempts, status_code),
                   IF attempts >= max_attempts THEN "decide" ELSE "sleep")
    /\ UNCHANGED <<config, procs, ubs_process, process, locals, writable, launchable, probed>>

\* lines 121-124 with the increment of line 122 before the line of line 121
LogAttemptAfterIncrement ==
    /\ pc = "log_attempt"
    /\ log_to_file(AttemptLine(attempts + 1, max_attempts, status_code),
                   IF attempts + 1 >= max_attempts THEN "decide" ELSE "sleep")
    /\ attempts' = IF writable THEN attempts + 1 ELSE attempts
    /\ UNCHANGED <<config, procs, ubs_process, process, status_code, outcome_key,
                   retrytimes, action, max_attempts, writable, launchable, probed>>

\* lines 121-124
LogAttempt ==
    /\ pc = "log_attempt"
    /\ log_to_file(AttemptLine(attempts, max_attempts, status_code),
                   IF attempts + 1 >= max_attempts THEN "decide" ELSE "sleep")
    /\ attempts' = IF writable THEN attempts + 1 ELSE attempts
    /\ UNCHANGED <<config, procs, ubs_process, process, status_code, outcome_key,
                   retrytimes, action, max_attempts, writable, launchable, probed>>

\* line 126
Sleep ==
    /\ pc = "sleep"
    /\ pc' = "retry_request"
    /\ UNCHANGED <<config, procs, ubs_process, process, locals, writable, launchable, fatal, log, probed, hist>>

\* line 127: the request leaves
RetryRequest ==
    /\ pc = "retry_request"
    /\ pc' = "retry_wait"
    /\ hist' = Append(hist, "probe")
    /\ UNCHANGED <<config, procs, ubs_process, process, locals, writable, launchable, fatal, log, probed>>

\* line 127 followed by a second run of lines 112-115 and 118
RetryResponseLooksUpAgain ==
    /\ pc = "retry_wait"
    /\ \E r \in perform_request :
        LET key == OutcomeKey(r)
            retry_config == get(config, key, EmptyDict)
            rt == get(retry_config, "retrytimes", 0)
        IN /\ status_code' = r
           /\ outcome_key' = key
           /\ retrytimes' = rt
           /\ action' = get(retry_config, "action", "nothing")
           /\ max_attempts' = 1 + rt
           /\ probed' = Append(probed, r)
    /\ pc' = "retry_test"
    /\ UNCHANGED <<config, procs, ubs_process, process, attempts, writable, launchable, fatal,
                   log, hist>>

\* line 127: perform_request returns
RetryResponse ==
    /\ pc = "retry_wait"
    /\ \E r \in perform_request :
        /\ status_code' = r
        /\ probed' = Append(probed, r)
    /\ pc' = "retry_test"
    /\ UNCHANGED <<config, procs, ubs_process, process, outcome_key, retrytimes, action,
                   attempts, max_attempts, writable, launchable, fatal, log, hist>>

\* line 130
Decide ==
    /\ pc = "decide"
    /\ pc' = IF StillFailing(status_code, outcome_key)
             THEN "log_failed"
             ELSE "log_success"
    /\ UNCHANGED <<config, procs, ubs_process, process, locals, writable, launchable, fatal, log, probed, hist>>

\* lines 132-134
LogFailed ==
    /\ pc = "log_failed"
    /\ log_to_file(FailedLine(attempts, max_attempts, status_code),
                   AfterFailed(action))
    /\ UNCHANGED <<config, procs, ubs_process, process, locals, writable, launchable, probed>>

\* line 135
Terminate ==
    /\ pc = "terminate"
    /\ procs' = terminate(process)
    /\ hist' = Append(hist, "terminate")
    /\ pc' = "start_restart"
    /\ UNCHANGED <<config, ubs_process, process, locals, writable, launchable, fatal, log, probed>>

\* line 136
StartRestart ==
    /\ pc = "start_restart"
    /\ restart_ubs("log_restart")
    /\ UNCHANGED <<config, ubs_process, locals, writable, launchable, log, probed>>

\* line 137
LogRestart ==
    /\ pc = "log_restart"
    /\ log_to_file(RestartLine(outcome_key), "check")
    /\ UNCHANGED <<config, procs, ubs_process, process, locals, writable, launchable, probed>>

\* line 140
LogSuccess ==
    /\ pc = "log_success"
    /\ log_to_file(SuccessLine(status_code, attempts), "check")
    /\ UNCHANGED <<config, procs, ubs_process, process, locals, writable, launchable, probed>>

-----------------------------------------------------------------------------
(* The environment of the loop *)

\* the server process ends by itself
UbsCrashes ==
    /\ \E p \in Pids :
        /\ procs[p] = "running"
        /\ procs' = [procs EXCEPT ![p] = "exited"]
    /\ UNCHANGED <<config, ubs_process, process, pc, locals, writable, launchable, fatal, log, probed, hist>>

\* a server process that was sent SIGTERM exits
UbsExits ==
    /\ \E p \in Pids :
        /\ procs[p] = "terminating"
        /\ procs' = [procs EXCEPT ![p] = "exited"]
    /\ UNCHANGED <<config, ubs_process, process, pc, locals, writable, launchable, fatal, log, probed, hist>>

\* the positions of the main thread inside monitor_ubs
LoopPcs == {"enter", "check", "start_dead", "log_dead", "first_request", "first_wait",
            "retry_test", "log_attempt", "sleep", "retry_request", "retry_wait", "decide",
            "log_failed", "terminate", "start_restart", "log_restart", "log_success"}

\* KeyboardInterrupt is raised in the main thread wherever it is, and propagates to
\* the except clause of line 163
Interrupt ==
    /\ pc \in LoopPcs
    /\ pc' = "interrupted"
    /\ UNCHANGED <<config, procs, ubs_process, process, locals, writable, launchable, fatal, log, probed, hist>>

\* lines 163-166
HandleInterrupt ==
    /\ pc = "interrupted"
    /\ procs' = IF is_ubs_running(ubs_process) THEN terminate(ubs_process) ELSE procs
    /\ pc' = "done"
    /\ UNCHANGED <<config, ubs_process, process, locals, writable, launchable, fatal, log, probed, hist>>

\* the log file stops being writable (disk full, permissions, file removed)
SinkFails ==
    /\ writable
    /\ pc \in LoopPcs
    /\ writable' = FALSE
    /\ UNCHANGED <<config, procs, ubs_process, process, pc, locals, launchable, fatal, log, probed, hist>>

\* starting a child stops being possible (no 'python' on the PATH, no process
\* slot or memory left)
LaunchFails ==
    /\ launchable
    /\ pc \in LoopPcs \cup {"start_initial"}
    /\ launchable' = FALSE
    /\ UNCHANGED <<config, procs, ubs_process, process, pc, locals, writable, fatal, log, probed, hist>>

-----------------------------------------------------------------------------
(* The main script from line 156: the configuration is loaded, no child yet *)

\* the value of a handle before start_ubs has returned one
NoHandle == 0

\* webmonconfig without the key 'waittime'
ConfigsNoWaittime ==
    {EmptyDict} \cup {(k :> e) : k \in {TIMEOUT, HTTP \o str(403)}, e \in Entries}

InitMain ==
    /\ config \in Configs \cup ConfigsNoWaittime
    /\ procs = [p \in Pids |-> "none"]
    /\ ubs_process = NoHandle
    /\ process = NoHandle
    /\ pc = "start_initial"
    /\ status_code = None
    /\ outcome_key = <<>>
    /\ retrytimes = 0
    /\ action = "nothing"
    /\ attempts = 0
    /\ max_attempts = 0
    /\ writable = TRUE
    /\ launchable = TRUE
    /\ fatal = "none"
    /\ log = <<>>
    /\ probed = <<>>
    /\ hist = <<>>

\* lines 159 and 162: ubs_process = start_ubs(), passed to monitor_ubs as `process`
StartInitial ==
    /\ pc = "start_initial"
    /\ IF launchable
       THEN /\ ubs_process' = start_ubs
            /\ process' = start_ubs
            /\ procs' = [procs EXCEPT ![start_ubs] = "running"]
            /\ pc' = "enter"
            /\ fatal' = fatal
       ELSE /\ ubs_process' = ubs_process
            /\ process' = process
            /\ procs' = procs
            /\ pc' = "crashed"
            /\ fatal' = "launch"
    /\ UNCHANGED <<config, locals, writable, launchable, log, probed, hist>>

-----------------------------------------------------------------------------
Loop ==
    \/ EnterMonitor
    \/ CheckLiveness
    \/ StartDead
    \/ LogDead
    \/ FirstRequest
    \/ FirstResponse
    \/ RetryTest
    \/ LogAttempt
    \/ Sleep
    \/ RetryRequest
    \/ RetryResponse
    \/ Decide
    \/ LogFailed
    \/ Terminate
    \/ StartRestart
    \/ LogRestart
    \/ LogSuccess

Next == Loop \/ UbsCrashes \/ UbsExits

\* the loop and its child process, with a writable log and no interrupt
Spec == Init /\ [][Next]_vars

NextInterrupt == Next \/ Interrupt \/ HandleInterrupt

\* the same with an external interrupt at any moment
SpecInterrupt == Init /\ [][NextInterrupt]_vars

NextLogSink == Next \/ SinkFails

\* the same with a log file that may stop being writable
SpecLogSink == Init /\ [][NextLogSink]_vars

NextFatal == Next \/ StartInitial \/ LaunchFails \/ SinkFails

\* the main script from line 156, with whatever can end it by an uncaught
\* exception: a configuration without 'waittime', a child that cannot be started,
\* a log file that cannot be written
SpecFatal == InitMain /\ [][NextFatal]_vars

\* the loop never stops taking its next step (one thread, nothing it waits for but
\* the probe, which returns within waittime, and the sleep), and a child that was
\* sent SIGTERM exits
SpecLive == Init /\ [][Next]_vars /\ WF_vars(Loop) /\ WF_vars(UbsExits)

-----------------------------------------------------------------------------
(* What a cycle did, read from the histories *)

HTTP403 == HTTP \o str(403)
HTTP200 == HTTP \o str(200)

\* the number of lines of the given type appended in this cycle
Lines(type) == Cardinality({i \in DOMAIN log : log[i].type = type})

\* the number of side effects of the given kind made in this cycle
Effects(op) == Cardinality({i \in DOMAIN hist : hist[i] = op})

\* the types of the lines appended in this cycle, in order
LineTypes == [i \in DOMAIN log |-> log[i].type]

\* the key of the first probe of this cycle and the policy configured for it
FirstKey == OutcomeKey(probed[1])
FirstPolicy == get(config, FirstKey, EmptyDict)
PolicyRetryTimes == get(FirstPolicy, "retrytimes", 0)
PolicyAction == get(FirstPolicy, "action", "nothing")

\* every probe of this cycle yielded the key of the first one
SameKeyThroughout == \A i \in DOMAIN probed : OutcomeKey(probed[i]) = FirstKey

\* a cycle that probed has ended
ProbingCycleEnded == pc = "check" /\ probed # <<>>

-----------------------------------------------------------------------------
\* C1: with http403 = {retrytimes: 2, action: restart} and an endpoint that answers
\* 403 to every probe, a cycle counts exactly 3 attempts (numbered 1/3, 2/3, 3/3),
\* then terminates and starts the process exactly once, with exactly one failure
\* line and exactly one restart line, in that order.
C1_Case ==
    /\ get(config, HTTP403, EmptyDict) = [retrytimes |-> 2, action |-> "restart"]
    /\ probed # <<>>
    /\ \A i \in DOMAIN probed : probed[i] = IntResult(403)

C1_ThreeAttemptsThenRestart ==
    (C1_Case /\ pc = "check") =>
        /\ attempts = 3
        /\ log = <<AttemptLine(1, 3, IntResult(403)), AttemptLine(2, 3, IntResult(403)),
                   FailedLine(3, 3, IntResult(403)), RestartLine(HTTP403)>>
        /\ Effects("terminate") = 1
        /\ Effects("start") = 1
        /\ Len(hist) >= 4
        /\ SubSeq(hist, Len(hist) - 3, Len(hist)) = <<"log", "terminate", "start", "log">>

C1_Witness ==
    /\ C1_Case
    /\ pc = "check"
    /\ Lines("failed") = 1
    /\ Lines("restarted_due_to") = 1
    /\ Effects("start") = 1

-----------------------------------------------------------------------------
\* C2: in a cycle in which every probe yields the same non-healthy key, with policy
\* retrytimes = k, exactly 1 + k probes have been made when the failure line is
\* logged.
C2_ProbesBeforeFailure ==
    (probed # <<>> /\ SameKeyThroughout /\ Lines("failed") > 0) =>
        Len(probed) = 1 + PolicyRetryTimes

-----------------------------------------------------------------------------
\* C3: a cycle in which every probe yields the same non-healthy key (timeout, error,
\* httpN with N # 200) ends with a failure line, and the process is terminated and
\* restarted, with a restart line, if and only if the key's action is restart.
C3_Restarted ==
    /\ Effects("terminate") = 1
    /\ Effects("start") = 1
    /\ Lines("restarted_due_to") = 1

C3_NotRestarted ==
    /\ Effects("terminate") = 0
    /\ Effects("start") = 0
    /\ Lines("restarted_due_to") = 0

C3_PersistentFailureEscalates ==
    (ProbingCycleEnded /\ SameKeyThroughout /\ FirstKey # HTTP200) =>
        /\ Lines("failed") = 1
        /\ Lines("success") = 0
        /\ IF PolicyAction = "restart" THEN C3_Restarted ELSE C3_NotRestarted

-----------------------------------------------------------------------------
\* C4: once a retry probe has returned a key other than the first probe's, no
\* further probe is made in the cycle, nothing is terminated or started, no failure
\* line is written, and the cycle ends with a success line carrying the final
\* status and an attempt count equal to the number of probes made.
C4_Mismatch == \E i \in DOMAIN probed : OutcomeKey(probed[i]) # FirstKey

C4_EarlyExitOnMismatch ==
    C4_Mismatch =>
        /\ \A i \in 1..(Len(probed) - 1) : OutcomeKey(probed[i]) = FirstKey
        /\ Effects("probe") = Len(probed)
        /\ pc \in {"retry_test", "decide", "log_success", "check"}
        /\ attempts = Len(probed)
        /\ Effects("terminate") = 0
        /\ Effects("start") = 0
        /\ Lines("failed") = 0
        /\ Lines("restarted_due_to") = 0
        /\ pc = "check" =>
            /\ Lines("success") = 1
            /\ log[Len(log)] = SuccessLine(probed[Len(probed)], Len(probed))

C4_Witness ==
    /\ get(config, HTTP403, EmptyDict) = [retrytimes |-> 2, action |-> "restart"]
    /\ probed = <<IntResult(403), IntResult(200)>>
    /\ pc = "check"
    /\ log[Len(log)] = SuccessLine(IntResult(200), 2)

-----------------------------------------------------------------------------
\* C5: a cycle that finds the process not alive starts a new process, appends
\* exactly the 'restarted (process was not running)' line, makes no probe and goes
\* straight back to the liveness check.
C5_DeadCycle == hist # <<>> /\ hist[1] = "start"

C5_DeadCycleShape ==
    /\ pc = "start_dead" => (hist = <<>> /\ log = <<>> /\ probed = <<>>)
    /\ C5_DeadCycle =>
        /\ probed = <<>>
        /\ \/ pc = "log_dead" /\ hist = <<"start">> /\ log = <<>>
           \/ pc = "check" /\ hist = <<"start", "log">> /\ log = <<NotRunningLine>>

C5_DeadCycleSteps ==
    /\ (pc = "check" /\ pc' # pc /\ ~is_ubs_running(process)) => pc' = "start_dead"
    /\ (pc = "start_dead" /\ pc' # pc) =>
        /\ pc' = "log_dead"
        /\ process' # process
        /\ procs[process'] # "running"
        /\ procs'[process'] = "running"
    /\ (pc = "log_dead" /\ pc' # pc) => pc' = "check"

C5_RestartWhenNotRunning == []C5_DeadCycleShape /\ [][C5_DeadCycleSteps]_vars

C5_Witness ==
    /\ pc = "check"
    /\ hist = <<"start", "log">>
    /\ log = <<NotRunningLine>>
    /\ is_ubs_running(process)
    /\ process # ubs_process

-----------------------------------------------------------------------------
\* C6: once the interrupt has been handled, no child process is left running: the
\* process the handler terminates is the one the loop supervises at that moment,
\* also after the loop has replaced the original process.  (A child that was sent
\* SIGTERM and has not exited yet is not counted as left running.)
C6_NoChildLeftAfterInterrupt ==
    pc = "done" => \A p \in Pids : procs[p] # "running"

-----------------------------------------------------------------------------
\* C7: at most one child process is alive (poll() is None) in every reachable
\* state.
Alive == {p \in Pids : is_ubs_running(p)}

C7_AtMostOneAlive == Cardinality(Alive) <= 1

-----------------------------------------------------------------------------
\* C8: an interrupt makes the loop exit only at a cycle boundary (at the liveness
\* check, or before the first cycle), never in the middle of a probe, of the
\* retries, of the decision or of a restart.
C8_InterruptOnlyAtBoundary ==
    [][pc' = "interrupted" => pc \in {"enter", "check", "interrupted"}]_vars

-----------------------------------------------------------------------------
\* C9: a log line that cannot be written never stops the supervision loop.
C9_LogFailureDoesNotStopLoop == fatal # "log" /\ pc # "crashed"

-----------------------------------------------------------------------------
\* C10: the loop starts a process only (a) in a cycle that found the process not
\* alive, before anything else in that cycle, or (b) after terminating it at the
\* end of a cycle whose first-probe key has the policy action restart, after the
\* failure line of that cycle; with action 'nothing' or no policy entry the
\* decision step terminates and starts nothing.

\* the number of lines that were in the log when side effect i was made
C10_LinesBefore(i) == Cardinality({j \in 1..(i - 1) : hist[j] = "log"})

C10_CycleShape ==
    /\ pc \in {"terminate", "start_restart", "log_restart"} =>
        /\ probed # <<>>
        /\ PolicyAction = "restart"
        /\ log # <<>>
        /\ log[Len(log)].type = "failed"
    /\ \A i \in DOMAIN hist :
        hist[i] \in {"terminate", "start"} =>
            \/ hist[i] = "start" /\ i = 1 /\ probed = <<>>
            \/ /\ probed # <<>>
               /\ PolicyAction = "restart"
               /\ C10_LinesBefore(i) >= 1
               /\ log[C10_LinesBefore(i)].type = "failed"
    /\ (probed # <<>> /\ PolicyAction # "restart") =>
        /\ Effects("terminate") = 0
        /\ Effects("start") = 0
        /\ Lines("restarted_due_to") = 0

\* the step sends SIGTERM to a child, starts one, or rebinds the loop's handle
C10_SupervisorActs ==
    \/ process' # process
    \/ \E p \in Pids : procs[p] = "running" /\ procs'[p] = "terminating"
    \/ \E p \in Pids : procs[p] # "running" /\ procs'[p] = "running"

C10_Steps ==
    C10_SupervisorActs =>
        \/ pc = "start_dead" /\ ~is_ubs_running(process) /\ hist = <<>>
        \/ /\ pc \in {"terminate", "start_restart"}
           /\ probed # <<>>
           /\ PolicyAction = "restart"
           /\ Lines("failed") = 1

C10_RestartOnlyWhenDeadOrEscalated == []C10_CycleShape /\ [][C10_Steps]_vars

C10_Witness ==
    /\ pc = "check"
    /\ get(config, TIMEOUT, EmptyDict) = [retrytimes |-> 1, action |-> "nothing"]
    /\ probed # <<>>
    /\ \A i \in DOMAIN probed : probed[i] = StrResult(TIMEOUT)
    /\ log[Len(log)].type = "failed"
    /\ Effects("terminate") = 0
    /\ Effects("start") = 0

-----------------------------------------------------------------------------
\* C11: a first probe whose key has no policy entry is handled with retrytimes 0
\* and action 'nothing': the cycle makes exactly one probe, logs no retry and
\* terminates and starts nothing; an entry without 'retrytimes' gives 0 retries
\* and an entry without 'action' gives no restart.
C11_NoRetry ==
    /\ retrytimes = 0
    /\ max_attempts = 1
    /\ Len(probed) = 1
    /\ Effects("probe") = 1
    /\ Lines("attempt") = 0
    /\ pc \notin {"log_attempt", "sleep", "retry_request", "retry_wait"}

C11_NoRestart ==
    /\ action = "nothing"
    /\ Effects("terminate") = 0
    /\ Effects("start") = 0
    /\ Lines("restarted_due_to") = 0
    /\ pc \notin {"terminate", "start_restart", "log_restart"}

C11_DefaultPolicy ==
    probed # <<>> =>
        /\ FirstKey \notin DOMAIN config => (C11_NoRetry /\ C11_NoRestart)
        /\ (FirstKey \in DOMAIN config /\ "retrytimes" \notin DOMAIN config[FirstKey]) => C11_NoRetry
        /\ (FirstKey \in DOMAIN config /\ "action" \notin DOMAIN config[FirstKey]) => C11_NoRestart

C11_Witness ==
    /\ pc = "check"
    /\ probed = <<IntResult(500)>>
    /\ HTTP \o str(500) \notin DOMAIN config
    /\ HTTP403 \in DOMAIN config
    /\ LineTypes = <<"failed">>
    /\ hist = <<"probe", "log">>

-----------------------------------------------------------------------------
\* C12: a child that cannot be started ends the script wherever the start is
\* (line 159, line 106, line 136): the exception is not swallowed, and after it
\* nothing is probed, logged or started.
C12_LaunchFailureStops ==
    fatal = "launch" => pc = "crashed"

C12_Steps ==
    /\ (~launchable /\ pc \in {"start_initial", "start_dead", "start_restart"} /\ pc' # pc) =>
        /\ pc' = "crashed"
        /\ fatal' = "launch"
        /\ UNCHANGED <<process, ubs_process, procs, log, probed, hist>>
    /\ fatal = "launch" =>
        /\ UNCHANGED <<pc, fatal, process, ubs_process, log, probed, hist>>
        /\ \A p \in Pids : procs'[p] = "running" => procs[p] = "running"

C12_LaunchFailureIsFatal == []C12_LaunchFailureStops /\ [][C12_Steps]_vars

C12_Witness ==
    /\ fatal = "launch"
    /\ pc = "crashed"
    /\ hist # <<>>
    /\ hist[Len(hist)] = "terminate"

-----------------------------------------------------------------------------
\* C13: with a configuration that has no 'waittime' the script ends at line 101,
\* before the loop: no cycle begins, nothing is probed and nothing is logged.
C13_NoCycle ==
    WAITTIME \notin DOMAIN config =>
        /\ pc \in {"start_initial", "enter", "crashed"}
        /\ pc = "crashed" => fatal \in {"config", "launch"}
        /\ log = <<>>
        /\ probed = <<>>
        /\ hist = <<>>

C13_Steps ==
    (WAITTIME \notin DOMAIN config /\ pc = "enter" /\ pc' # pc) =>
        (pc' = "crashed" /\ fatal' = "config")

C13_MissingWaittimeIsFatal == []C13_NoCycle /\ [][C13_Steps]_vars

C13_Witness ==
    /\ WAITTIME \notin DOMAIN config
    /\ config # EmptyDict
    /\ pc = "crashed"
    /\ fatal = "config"

-----------------------------------------------------------------------------
\* C14: a cycle whose first probe yields http200 writes no failure line and
\* terminates and starts nothing, whatever the policy of http200 and whatever the
\* retries return; it ends with a success line.
C14_HealthyCycleSucceeds ==
    (probed # <<>> /\ FirstKey = HTTP200) =>
        /\ Lines("failed") = 0
        /\ Lines("restarted_due_to") = 0
        /\ Effects("terminate") = 0
        /\ Effects("start") = 0
        /\ pc \notin {"log_failed", "terminate", "start_restart", "log_restart"}
        /\ pc = "check" =>
            /\ Lines("success") = 1
            /\ log[Len(log)] = SuccessLine(status_code, attempts)

C14_Witness ==
    /\ pc = "check"
    /\ get(config, HTTP200, EmptyDict) = [retrytimes |-> 2, action |-> "restart"]
    /\ probed = <<IntResult(200), IntResult(200)>>
    /\ LineTypes = <<"attempt", "attempt", "success">>

-----------------------------------------------------------------------------
\* C15: from the first response to the end of the cycle outcome_key, retrytimes,
\* action and max_attempts are the ones the first probe's key gives; a retry
\* response changes the status only, and the policy is not looked up again even
\* when the retry's key has an entry of its own.
C15_FixedByFirstProbe ==
    probed # <<>> =>
        /\ outcome_key = FirstKey
        /\ retrytimes = PolicyRetryTimes
        /\ action = PolicyAction
        /\ max_attempts = 1 + PolicyRetryTimes

C15_Steps ==
    /\ pc # "first_wait" => UNCHANGED <<outcome_key, retrytimes, action, max_attempts>>
    /\ pc = "retry_wait" => UNCHANGED attempts
    /\ pc \notin {"first_wait", "retry_wait"} => UNCHANGED status_code
    /\ pc \notin {"first_wait", "log_attempt"} => UNCHANGED attempts

C15_PolicyFixedForCycle == []C15_FixedByFirstProbe /\ [][C15_Steps]_vars

C15_Witness ==
    /\ pc = "check"
    /\ Len(probed) = 2
    /\ FirstKey = HTTP403
    /\ OutcomeKey(probed[2]) = TIMEOUT
    /\ TIMEOUT \in DOMAIN config
    /\ retrytimes = 2
    /\ config[TIMEOUT].retrytimes = 1
    /\ LineTypes = <<"attempt", "success">>

-----------------------------------------------------------------------------
\* C16: without interrupt and fatal error, and with every probe returning, the
\* loop always has a next step, no cycle makes more probes than max_attempts, and
\* control is at the liveness check again and again, forever.
C16_BoundedProbes ==
    /\ pc \notin {"crashed", "interrupted", "done"}
    /\ probed # <<>> =>
        /\ Len(probed) <= max_attempts
        /\ Effects("probe") <= max_attempts

C16_LoopRunsForever ==
    /\ []C16_BoundedProbes
    /\ [](ENABLED Next)
    /\ []<>(pc = "check")

C16_Witness ==
    /\ pc = "check"
    /\ max_attempts = 3
    /\ Len(probed) = 2
    /\ LineTypes = <<"attempt", "attempt", "failed", "restarted_due_to">>
    /\ Cardinality(Alive) = 2

-----------------------------------------------------------------------------
\* C17: a cycle that probed ends with exactly one terminal line, a failure line or
\* a success line, never both; a restart line comes only immediately after the
\* failure line, and nothing follows the success line.
C17_OneTerminalLine ==
    /\ Lines("failed") + Lines("success") <= 1
    /\ ProbingCycleEnded => Lines("failed") + Lines("success") = 1
    /\ \A i \in DOMAIN log :
        /\ log[i].type = "restarted_due_to" =>
            (i > 1 /\ log[i - 1].type = "failed" /\ i = Len(log))
        /\ log[i].type = "success" => i = Len(log)
        /\ log[i].type = "failed" =>
            (i = Len(log) \/ (i = Len(log) - 1 /\ log[i + 1].type = "restarted_due_to"))

C17_Witness ==
    /\ pc = "check"
    /\ LineTypes = <<"attempt", "failed", "restarted_due_to">>

-----------------------------------------------------------------------------
\* C18: once the first probe of a cycle has set the counters (retrytimes >= 0),
\* 1 <= attempts <= max_attempts, and the number of probes issued in the cycle is
\* at least 1 and at most attempts.
C18_AttemptsInRange ==
    probed # <<>> =>
        /\ retrytimes >= 0
        /\ 1 <= attempts
        /\ attempts <= max_attempts
        /\ 1 <= Effects("probe")
        /\ Effects("probe") <= attempts

C18_Witness ==
    /\ pc = "decide"
    /\ attempts = 3
    /\ max_attempts = 3
    /\ Effects("probe") = 2

-----------------------------------------------------------------------------
\* C19: the attempt lines of a cycle are numbered 1, 2, ... in order, each with the
\* cycle's max_attempts (1 + the retrytimes of the first probe's key), and every
\* failure line carries attempts = max_attempts and continues the numbering.
C19_AttemptNumbering ==
    \A i \in DOMAIN log :
        /\ log[i].type \in {"attempt", "failed"} =>
            /\ log[i].attempts = i
            /\ log[i].max_attempts = 1 + PolicyRetryTimes
            /\ \A j \in 1..(i - 1) : log[j].type = "attempt"
        /\ log[i].type = "attempt" => log[i].attempts < log[i].max_attempts
        /\ log[i].type = "failed" => log[i].attempts = log[i].max_attempts

C19_Witness ==
    /\ LineTypes = <<"attempt", "attempt", "failed">>
    /\ log[3].attempts = 3
    /\ log[3].max_attempts = 3

-----------------------------------------------------------------------------
\* C20: when an uncaught exception has ended the script (no 'waittime', a log
\* line that cannot be written, a child that cannot be started), no child process
\* is left running.
C20_NoChildLeftAfterFatal ==
    pc = "crashed" => \A p \in Pids : procs[p] # "running"

====
